---- MODULE Spec2Model ----
(***************************************************************************)
(* ResearchPilot: the agent retry engine (backend/agents/base_agent.py)    *)
(* and the pipeline orchestrator (backend/agents/orchestrator.py).         *)
(*                                                                         *)
(* Three specifications, the first two sharing the same execute steps:     *)
(*   UnitSpec  one BaseAgent.execute call of one agent, for every          *)
(*             max_retries 0..MaxM and every scripted behaviour of the     *)
(*             work function and the validation hook;                      *)
(*   Spec      one Orchestrator.run_pipeline call on a freshly built       *)
(*             orchestrator, the seven agents failing and succeeding       *)
(*             freely, the three stage-3 agents interleaved at their       *)
(*             suspension points (the awaited work, the back-off sleep).   *)
(*   AssembleSpec  Orchestrator._assemble_output called, once and again,   *)
(*             on any result table over the seven slots.                   *)
(* A step is what asyncio runs between two suspension points.              *)
(***************************************************************************)
EXTENDS Integers, Sequences, FiniteSets, TLC

VARIABLES
    ag,                 \* agent name -> the agent object and its execute call
    opc,                \* where run_pipeline is
    results,            \* Orchestrator.results: agent name -> AgentResult
    pipeline_status,    \* Orchestrator.pipeline_status: stage -> status, detail
    progress_callbacks, \* Orchestrator.progress_callbacks (observer ids)
    events,             \* every event handed to the callbacks, in order
    cb_calls,           \* observer id -> number of times it was invoked
    cb_faulted,         \* the observers whose callback raised (and _emit logged)
    output,             \* <<>> until run_pipeline returns, then <<its dict>>
    payload,            \* the kind of value the work functions of this run return
                        \* when they complete (one kind per run, any agent may
                        \* raise instead on any invocation)
    task,               \* the background task run_analysis_pipeline of the paper
    stream              \* the event generator of one stream_progress request

vars == <<ag, opc, results, pipeline_status, progress_callbacks, events,
          cb_calls, cb_faulted, output, payload, task, stream>>

orch_vars == <<opc, results, pipeline_status, progress_callbacks, events,
               cb_calls, cb_faulted, output>>

(***************************************************************************)
(* Bounds and program constants                                            *)
(***************************************************************************)
MaxM == 2

MaxObservers == 2

MaxCalls == 2

MaxTime == 1

MaxPolls == 3

DefaultMaxRetries == 2

CompleteStages == 7

Agents == {"ingestion", "extraction", "simplification", "related_research",
           "literature_review", "gap_analysis", "code_generation"}

Group == <<"simplification", "related_research", "code_generation">>

GroupSet == {Group[i] : i \in 1..3}

STAGES == <<"reading_paper", "extracting_methodology", "finding_related_work",
            "comparing_contributions", "detecting_research_gaps",
            "generating_hypothesis", "building_prototype">>

Unit == "ingestion"

(***************************************************************************)
(* Values.  A payload is a record [kind, by]: None, the empty dict {}, a   *)
(* non-empty plain dict, a pydantic model object, the dict a model dumps   *)
(* to, or a value that is no dict (a str, a list).  None and {} carry no   *)
(* producer; every other value names the agent that made it.               *)
(***************************************************************************)
Kinds == {"none", "empty", "dict", "model", "nondict"}

NoneV == [kind |-> "none", by |-> "-"]

EmptyDict == [kind |-> "empty", by |-> "-"]

Value(a, k) == IF k \in {"none", "empty"} THEN [kind |-> k, by |-> "-"]
               ELSE [kind |-> k, by |-> a]

IsDict(v) == v.kind \in {"empty", "dict", "dump"}

\* Python truth value: None and {} are false
Truthy(v) == v.kind \notin {"none", "empty"}

NoError == [by |-> "-", attempt |-> 0, what |-> "None"]

Err(a, n, what) == [by |-> a, attempt |-> n, what |-> what]

MaxRetriesError == [by |-> "-", attempt |-> 0, what |-> "Max retries exceeded"]

RelatedUnavailable ==
    [by |-> "-", attempt |-> 0, what |-> "Related research unavailable"]

(***************************************************************************)
(* AgentResult (base_agent.py 17-22)                                       *)
(***************************************************************************)
AgentResult(st, out, err, time, rc) ==
    [status |-> st, output |-> out, error |-> err,
     execution_time_seconds |-> time, retry_count |-> rc]

NoResult == AgentResult("-", NoneV, NoError, 0, 0)

\* output: Optional[dict] -- pydantic refuses anything but None or a dict
ValidOutput(v) == v.kind = "none" \/ IsDict(v)

\* validated.model_dump() if hasattr(validated, "model_dump") else validated
OutputDict(v) == IF v.kind = "model" THEN [kind |-> "dump", by |-> v.by] ELSE v

\* BaseAgent.validate: the default hook hands its argument back
Validate(v) == v

(***************************************************************************)
(* The agent object and its execute call                                   *)
(***************************************************************************)
NoInput == [kind |-> "none", by |-> "-"]

NewAgent(m, script) ==
    [pc |-> "idle", status |-> "idle", max_retries |-> m, retry_count |-> 0,
     executes |-> 0, calls |-> 0, slept |-> 0, delay |-> 0, returns |-> 0,
     result |-> NoResult, script |-> script, input |-> NoInput,
     escaped |-> "-", trace |-> <<"idle">>]

Outcomes == {"raise_run", "raise_validate"} \cup Kinds

\* what the work function (run, then validate) does on its next invocation
NextOutcomes(s) ==
    IF s.script # <<>> THEN {s.script[s.calls]}
    ELSE {"raise_run", payload}

(***************************************************************************)
(* BaseAgent.execute (base_agent.py 36-75), one operator per stretch of    *)
(* code between two suspension points.  Time is counted in the back-off    *)
(* units slept: execution_time_seconds is the time slept since the start.  *)
(***************************************************************************)
\* while retry_count <= self.max_retries
LoopGuard(rc, m) == rc <= m

Exhausted_early(rc, m) == rc >= m

\* if retry_count > self.max_retries
Exhausted(rc, m) == rc > m

Backoff_half(rc) == 2 ^ (rc - 1)

\* await asyncio.sleep(2 ** retry_count)
Backoff(rc) == 2 ^ rc

FailedResult_generic(s, err, rc) ==
    AgentResult("failed", NoneV, MaxRetriesError, s.slept, rc)

\* AgentResult(status=FAILED, error=str(e), execution_time_seconds, retry_count)
FailedResult(s, err, rc) == AgentResult("failed", NoneV, err, s.slept, rc)

SuccessResult_zero(s, out) == AgentResult("success", out, NoError, s.slept, 0)

\* AgentResult(status=SUCCESS, output=output_dict, execution_time_seconds, retry_count)
SuccessResult(s, out) == AgentResult("success", out, NoError, s.slept, s.retry_count)

\* self.status = st; trace keeps every value the field has held, in order
SetStatus(s, st) ==
    [s EXCEPT !.status = st,
              !.trace = IF s.status = st THEN @ ELSE Append(@, st)]

\* lines 38-45: start the clock, status RUNNING, retry_count 0, first invocation
ExecuteStart(s, input) ==
    [SetStatus(s, "running") EXCEPT !.pc = "run", !.retry_count = 0,
              !.executes = @ + 1,
              !.calls = 1, !.slept = 0, !.delay = 0, !.input = input]

OnException_reraise(s, a, what) ==
    LET rc == s.retry_count + 1
        r  == SetStatus(s, "retrying")
    IN  IF Exhausted(rc, s.max_retries)
        THEN [SetStatus(r, "failed") EXCEPT !.retry_count = rc, !.pc = "raised",
                                            !.escaped = "Exception"]
        ELSE [r EXCEPT !.retry_count = rc, !.pc = "sleep", !.delay = Backoff(rc)]

\* lines 56-68: count the failure, status RETRYING, then either FAILED and the
\* failed result, or the back-off sleep
OnException(s, a, what) ==
    LET rc == s.retry_count + 1
        r  == SetStatus(s, "retrying")
    IN  IF Exhausted(rc, s.max_retries)
        THEN [SetStatus(r, "failed") EXCEPT
                   !.retry_count = rc, !.pc = "done", !.returns = @ + 1,
                   !.result = FailedResult(s, Err(a, s.calls, what), rc)]
        ELSE [r EXCEPT !.retry_count = rc, !.pc = "sleep", !.delay = Backoff(rc)]

\* lines 47-55: status SUCCESS, then the AgentResult; a validated value that is
\* neither None nor a dict makes the constructor raise inside the try
OnSuccess(s, a, validated) ==
    IF ValidOutput(OutputDict(validated))
    THEN [SetStatus(s, "success") EXCEPT !.pc = "done", !.returns = @ + 1,
                   !.result = SuccessResult(s, OutputDict(validated))]
    ELSE OnException(SetStatus(s, "success"), a, "ValidationError")

\* lines 43-56: what one invocation of run and validate leads to
Attempt(s, a, o) ==
    CASE o = "raise_run" -> OnException(s, a, "run")
      [] o = "raise_validate" -> OnException(s, a, "validate")
      [] OTHER -> OnSuccess(s, a, Validate(Value(a, o)))

\* line 68 ends, line 42 is tested again: the next invocation, or lines 70-75
Wake(s) ==
    LET t == [s EXCEPT !.slept = @ + s.delay, !.delay = 0] IN
    IF LoopGuard(s.retry_count, s.max_retries)
    THEN [t EXCEPT !.pc = "run", !.calls = @ + 1]
    ELSE [t EXCEPT !.pc = "done", !.returns = @ + 1,
                   !.result = AgentResult("failed", NoneV, MaxRetriesError,
                                          t.slept, s.retry_count)]

Blocks_sleeping(s) == s.pc = "sleep"

\* await asyncio.sleep(...) and await self.run(...) suspend only the task that
\* awaits: an agent that waits never keeps the event loop from running others
Blocks(s) == FALSE

\* the event loop can run a step of agent a
LoopFree(a) == \A b \in Agents \ {a} : ~Blocks(ag[b])

\* the awaited work raises asyncio.CancelledError, a BaseException that is no
\* Exception: the except Exception of line 56 does not catch it and it leaves
\* execute, no result returned, the status field left as it is
OnCancelled(s) == [s EXCEPT !.pc = "raised", !.escaped = "CancelledError"]

\* the awaited work of agent a completes or raises
RunCompletes(a) ==
    /\ ag[a].pc = "run"
    /\ LoopFree(a)
    /\ \E o \in NextOutcomes(ag[a]) : ag' = [ag EXCEPT ![a] = Attempt(ag[a], a, o)]
    /\ UNCHANGED <<orch_vars, payload, task, stream>>

\* the back-off sleep of agent a ends
BackoffEnds(a) ==
    /\ ag[a].pc = "sleep"
    /\ LoopFree(a)
    /\ ag' = [ag EXCEPT ![a] = Wake(ag[a])]
    /\ UNCHANGED <<orch_vars, payload, task, stream>>

(***************************************************************************)
(* UnitSpec: one execute call of one agent                                 *)
(***************************************************************************)
Scripts(m) == [1..(m + 2) -> Outcomes]

RawInput == [kind |-> "input", by |-> "caller"]

\* the generator of a stream_progress request: where it is, its sent_count
\* and waited (in polls), what it has yielded so far, and whether it has read
\* the event list after the background task was over
Closed == [pc |-> "closed", sent_count |-> 0, waited |-> 0, out |-> <<>>,
           polled_after_end |-> FALSE]

\* no background task, no stream request
NoApi == task = "none" /\ stream = Closed

NewOrchestrator ==
    /\ opc = "new"
    /\ results = <<>>
    /\ pipeline_status = <<>>
    /\ progress_callbacks = <<>>
    /\ events = <<>>
    /\ cb_calls = <<>>
    /\ cb_faulted = {}
    /\ output = <<>>

UnitInit ==
    /\ NewOrchestrator
    /\ NoApi
    /\ payload = "model"
    /\ \E m \in 0..MaxM : \E sc \in Scripts(m) :
         ag = [a \in Agents |->
                 IF a = Unit THEN NewAgent(m, sc)
                 ELSE NewAgent(DefaultMaxRetries, <<>>)]

\* the caller awaits agent.execute(input_data)
UnitCall ==
    /\ ag[Unit].pc = "idle"
    /\ ag' = [ag EXCEPT ![Unit] = ExecuteStart(ag[Unit], RawInput)]
    /\ UNCHANGED <<orch_vars, payload, task, stream>>

UnitNext == UnitCall \/ RunCompletes(Unit) \/ BackoffEnds(Unit)

UnitSpec == UnitInit /\ [][UnitNext]_vars

(***************************************************************************)
(* Orchestrator (orchestrator.py)                                          *)
(***************************************************************************)
Text(s) == [by |-> "-", attempt |-> 0, what |-> s]

Event(stage, status, detail) == [stage |-> stage, status |-> status, detail |-> detail]

Put(f, k, v) == [x \in DOMAIN f \cup {k} |-> IF x = k THEN v ELSE f[x]]

RECURSIVE ApplyEvents(_, _)
\* self.pipeline_status[stage] = {"status": status, "detail": detail}, per event
ApplyEvents(ps, es) ==
    IF es = <<>> THEN ps
    ELSE ApplyEvents(Put(ps, Head(es).stage,
                         [status |-> Head(es).status, detail |-> Head(es).detail]),
                     Tail(es))

EscapesEmit_uncaught(raised) == raised # {}

\* _emit wraps every callback in try/except Exception and logs: an exception
\* raised by a callback never leaves _emit
EscapesEmit(raised) == FALSE

Delivered_abort(o, raised, n) == IF \E p \in raised : p < o THEN 0 ELSE n

\* for cb in self.progress_callbacks: try: await cb(event): of n events
\* emitted while the observers in raised raise, how many observer o is
\* invoked for -- the try is inside the loop, so the loop goes on to the next
\* callback after a fault
Delivered(o, raised, n) == n

\* the "pipeline" entry of the dict _emit hands to a callback (line 59) is the
\* object self.pipeline_status itself, not a copy of it: an observer that kept
\* the event e reads, through it, the status table as it is at the time of
\* reading
PipelineOf(e) == pipeline_status

\* on_progress(callback), before the run
Register ==
    /\ opc = "new"
    /\ Len(progress_callbacks) < MaxObservers
    /\ progress_callbacks' = Append(progress_callbacks, Len(progress_callbacks) + 1)
    /\ cb_calls' = Put(cb_calls, Len(progress_callbacks) + 1, 0)
    /\ UNCHANGED <<ag, opc, results, pipeline_status, events, cb_faulted, output, payload, task, stream>>

\* StructuredDocument(**d) validates only the dict an ingested document dumps to
IsStructuredDocument(d) == d.kind = "dump" /\ d.by = "ingestion"

\* doc = StructuredDocument(**output) if isinstance(output, dict) else output
Doc(out) == IF IsDict(out) THEN [kind |-> "doc", by |-> out.by] ELSE out

DocRaises(out) == IsDict(out) /\ ~IsStructuredDocument(out)

\* the stage run_pipeline reports around each agent's execute (lines 69-140)
StageOf ==
    [ingestion |-> "reading_paper", extraction |-> "extracting_methodology",
     related_research |-> "finding_related_work",
     simplification |-> "comparing_contributions",
     code_generation |-> "building_prototype",
     literature_review |-> "detecting_research_gaps",
     gap_analysis |-> "generating_hypothesis"]

\* Orchestrator._assemble_output.safe_output
SafeOutput(res, key) ==
    IF key \in DOMAIN res /\ res[key].status = "success" /\ Truthy(res[key].output)
    THEN res[key].output
    ELSE EmptyDict

\* the output section each agent's result goes to (lines 153-159)
SectionOf ==
    [ingestion |-> "paper", extraction |-> "knowledge_card",
     simplification |-> "explanations", related_research |-> "related_papers",
     literature_review |-> "literature_review", gap_analysis |-> "gap_analysis",
     code_generation |-> "code_prototype"]

AgentStatuses_successOnly(res) ==
    [k \in {a \in DOMAIN res : res[a].status = "success"} |->
        [status |-> res[k].status,
         time |-> res[k].execution_time_seconds,
         error |-> res[k].error]]

\* {k: {"status": v.status, "time": ..., "error": v.error} for k, v in results.items()}
AgentStatuses(res) ==
    [k \in DOMAIN res |->
        [status |-> res[k].status,
         time |-> res[k].execution_time_seconds,
         error |-> res[k].error]]

AssembleOutput_swapped(res, total_time) ==
    [paper |-> SafeOutput(res, "ingestion"),
     knowledge_card |-> SafeOutput(res, "extraction"),
     explanations |-> SafeOutput(res, "related_research"),
     related_papers |-> SafeOutput(res, "simplification"),
     literature_review |-> SafeOutput(res, "literature_review"),
     gap_analysis |-> SafeOutput(res, "gap_analysis"),
     code_prototype |-> SafeOutput(res, "code_generation"),
     metadata |->
        [total_time |-> total_time, agent_statuses |-> AgentStatuses(res)]]

\* Orchestrator._assemble_output
AssembleOutput(res, total_time) ==
    [paper |-> SafeOutput(res, "ingestion"),
     knowledge_card |-> SafeOutput(res, "extraction"),
     explanations |-> SafeOutput(res, "simplification"),
     related_papers |-> SafeOutput(res, "related_research"),
     literature_review |-> SafeOutput(res, "literature_review"),
     gap_analysis |-> SafeOutput(res, "gap_analysis"),
     code_prototype |-> SafeOutput(res, "code_generation"),
     metadata |->
        [total_time |-> total_time, agent_statuses |-> AgentStatuses(res)]]

Max(x, y) == IF x >= y THEN x ELSE y

TimeOf(res, k) == IF k \in DOMAIN res THEN res[k].execution_time_seconds ELSE 0

\* time.time() - start_time, in back-off units: the stages run one after the
\* other, the three stage-3 agents together
Elapsed(res) ==
    TimeOf(res, "ingestion") + TimeOf(res, "extraction")
    + Max(TimeOf(res, "simplification"),
          Max(TimeOf(res, "related_research"), TimeOf(res, "code_generation")))
    + TimeOf(res, "literature_review") + TimeOf(res, "gap_analysis")

Started(a, input) == [ag EXCEPT ![a] = ExecuteStart(ag[a], input)]

\* one stretch of run_pipeline between two awaited executes: the events es are
\* emitted (some callback raising or not), then the run is at nopc
OrchStep(es, raised, nopc, nres, nag, nout) ==
    /\ pipeline_status' = ApplyEvents(pipeline_status, es)
    /\ events' = events \o es
    /\ cb_calls' = [o \in DOMAIN cb_calls |->
                       cb_calls[o] + Delivered(o, raised, Len(es))]
    /\ cb_faulted' = cb_faulted \cup raised
    /\ IF EscapesEmit(raised)
       THEN opc' = "raised" /\ results' = results /\ ag' = ag /\ output' = output
       ELSE opc' = nopc /\ results' = nres /\ ag' = nag /\ output' = nout
    /\ UNCHANGED <<progress_callbacks, payload, task, stream>>

\* the observers that raise on the events of one stretch: any of them, or none
CallbackFaults == SUBSET {progress_callbacks[i] : i \in 1..Len(progress_callbacks)}

\* an exception leaves run_pipeline
Escape ==
    /\ opc' = "raised"
    /\ UNCHANGED <<ag, results, pipeline_status, progress_callbacks, events,
                   cb_calls, cb_faulted, output, payload, task, stream>>

StageFailed_silent(stage, r) == <<>>

\* await self._emit(stage, "failed", result.error or "") before the early return
StageFailed(stage, r) == <<Event(stage, "failed", r.error)>>

ShortCircuit_never(r) == FALSE

\* if result.status == AgentStatus.FAILED: emit failed, return the assembled output
ShortCircuit(r) == r.status = "failed"

\* lines 64-70: stage 1 starts
StartPipeline ==
    /\ opc = "new"
    /\ \E f \in CallbackFaults :
         OrchStep(<<Event("reading_paper", "running", Text("Parsing paper..."))>>, f,
                  "ingesting", results, Started("ingestion", RawInput), output)

\* lines 70-81: ingestion has returned; short-circuit, or stage 2 starts
IngestionReturns ==
    /\ opc = "ingesting"
    /\ ag["ingestion"].pc \in {"done", "raised"}
    /\ IF ag["ingestion"].pc = "raised" THEN Escape
       ELSE LET r == ag["ingestion"].result
                res == Put(results, "ingestion", r)
            IN  \E f \in CallbackFaults :
                IF ShortCircuit(r)
                THEN OrchStep(StageFailed("reading_paper", r), f,
                              "returned", res, ag, <<AssembleOutput(res, Elapsed(res))>>)
                ELSE IF DocRaises(r.output)
                THEN OrchStep(<<Event("reading_paper", "done", Text("ok")),
                                Event("extracting_methodology", "running",
                                      Text("Extracting knowledge..."))>>, f,
                              "raised", res, ag, output)
                ELSE OrchStep(<<Event("reading_paper", "done", Text("ok")),
                                Event("extracting_methodology", "running",
                                      Text("Extracting knowledge..."))>>, f,
                              "extracting", res,
                              Started("extraction", Doc(r.output)), output)

\* lines 81-100: extraction has returned; short-circuit, or the three stage-3
\* coroutines are handed to asyncio.gather
ExtractionReturns ==
    /\ opc = "extracting"
    /\ ag["extraction"].pc \in {"done", "raised"}
    /\ IF ag["extraction"].pc = "raised" THEN Escape
       ELSE LET r == ag["extraction"].result
                res == Put(results, "extraction", r)
            IN  \E f \in CallbackFaults :
                IF ShortCircuit(r)
                THEN OrchStep(StageFailed("extracting_methodology", r), f,
                              "returned", res, ag, <<AssembleOutput(res, Elapsed(res))>>)
                ELSE OrchStep(<<Event("extracting_methodology", "done", Text("ok")),
                                Event("finding_related_work", "running",
                                      Text("Finding related papers...")),
                                Event("comparing_contributions", "running",
                                      Text("Analyzing contributions...")),
                                Event("building_prototype", "running",
                                      Text("Generating code..."))>>, f,
                              "gathering", res, ag, output)

\* lines 93-98: the argument each stage-3 coroutine was created with
GroupInput(a) ==
    IF a = "simplification"
    THEN [document |-> results["ingestion"].output,
          knowledge |-> results["extraction"].output]
    ELSE results["extraction"].output

\* the event loop starts the task gather made of a stage-3 coroutine
TaskStart(a) ==
    /\ opc = "gathering"
    /\ ag[a].pc = "idle"
    /\ LoopFree(a)
    /\ ag' = Started(a, GroupInput(a))
    /\ UNCHANGED <<orch_vars, payload, task, stream>>

GatherDone_any == \E a \in GroupSet : ag[a].pc \in {"done", "raised"}

\* await asyncio.gather(..., return_exceptions=True): all three tasks are over
GatherDone == \A a \in GroupSet : ag[a].pc \in {"done", "raised"}

IsException_base(cls) == TRUE

\* isinstance(res, Exception): CancelledError derives from BaseException only
IsException(cls) == cls # "CancelledError"

\* an exception object stored where an AgentResult is expected: it has no
\* status, output or error attribute
RawException(cls) ==
    [status |-> "AttributeError", output |-> NoneV, error |-> NoError,
     execution_time_seconds |-> 0, retry_count |-> 0, raw |-> cls]

\* reading .status of what is stored raises AttributeError
NoStatus(r) == r.status = "AttributeError"

\* lines 103-109: gather hands back, for each task, its result or the
\* exception it ended with (a CancelledError for a cancelled task); what
\* passes isinstance(res, Exception) becomes a failed result, anything else is
\* stored as it is
Collected(a) ==
    IF ag[a].pc = "raised"
    THEN IF IsException(ag[a].escaped)
         THEN AgentResult("failed", NoneV, Err(a, ag[a].calls, "raised"), 0, 0)
         ELSE RawException(ag[a].escaped)
    ELSE ag[a].result

RelatedOk_present(res) == "related_research" \in DOMAIN res

\* related_output and related_output.status == AgentStatus.SUCCESS (line 118)
RelatedOk(res) ==
    "related_research" \in DOMAIN res /\ res["related_research"].status = "success"

\* the result stored for a literature review that is skipped (lines 125-127)
SkippedReview == AgentResult("failed", NoneV, RelatedUnavailable, 0, 0)

GapInput_raw(res) ==
    [knowledge |-> res["extraction"].output,
     review |-> res["literature_review"].output,
     related |-> res["related_research"].output]

\* _assemble_output reads .status of every stored value (lines 148, 163)
AssembleRaises(res) == \E k \in DOMAIN res : NoStatus(res[k])

\* the input of gap_analysis, lines 131-136
GapInput(res) ==
    LET ok(k) == k \in DOMAIN res /\ res[k].status = "success" IN
    [knowledge |-> res["extraction"].output,
     review |-> IF ok("literature_review")
                THEN res["literature_review"].output ELSE EmptyDict,
     related |-> IF ok("related_research")
                 THEN res["related_research"].output ELSE EmptyDict]

\* lines 100-131: the join; the three results are stored, stage 4 runs or is
\* skipped, and in the latter case stage 5 starts at once; line 118 raises if
\* what is stored for related_research has no status
GatherReturns ==
    /\ opc = "gathering"
    /\ GatherDone
    /\ LET res3 == [k \in DOMAIN results \cup GroupSet |->
                        IF k \in GroupSet THEN Collected(k) ELSE results[k]]
           done3 == <<Event("finding_related_work", "done", Text("ok")),
                      Event("comparing_contributions", "done", Text("ok")),
                      Event("building_prototype", "done", Text("ok")),
                      Event("detecting_research_gaps", "running",
                            Text("Building literature review..."))>>
           rel == res3["related_research"]
       IN  \E f \in CallbackFaults :
           IF NoStatus(rel)
           THEN OrchStep(done3, f, "raised", res3, ag, output)
           ELSE IF RelatedOk(res3)
           THEN OrchStep(done3, f, "reviewing", res3,
                         Started("literature_review",
                                 [knowledge |-> res3["extraction"].output,
                                  related |-> rel.output]),
                         output)
           ELSE LET res4 == Put(res3, "literature_review", SkippedReview)
                IN  OrchStep(Append(done3,
                                    Event("generating_hypothesis", "running",
                                          Text("Analyzing research gaps..."))),
                             f, "analysing", res4,
                             Started("gap_analysis", GapInput(res4)), output)

\* lines 119-137: the literature review has returned; stage 5 starts
LiteratureReturns ==
    /\ opc = "reviewing"
    /\ ag["literature_review"].pc \in {"done", "raised"}
    /\ IF ag["literature_review"].pc = "raised" THEN Escape
       ELSE LET res == Put(results, "literature_review", ag["literature_review"].result)
            IN  \E f \in CallbackFaults :
                OrchStep(<<Event("generating_hypothesis", "running",
                                 Text("Analyzing research gaps..."))>>, f,
                         "analysing", res, Started("gap_analysis", GapInput(res)), output)

\* lines 132-142: the gap analysis has returned; the output is assembled
GapReturns ==
    /\ opc = "analysing"
    /\ ag["gap_analysis"].pc \in {"done", "raised"}
    /\ IF ag["gap_analysis"].pc = "raised" THEN Escape
       ELSE LET res == Put(results, "gap_analysis", ag["gap_analysis"].result)
            IN  \E f \in CallbackFaults :
                IF AssembleRaises(res)
                THEN OrchStep(<<Event("detecting_research_gaps", "done", Text("ok")),
                                Event("generating_hypothesis", "done", Text("ok"))>>, f,
                              "raised", res, ag, output)
                ELSE
                OrchStep(<<Event("detecting_research_gaps", "done", Text("ok")),
                           Event("generating_hypothesis", "done", Text("ok"))>>, f,
                         "returned", res, ag, <<AssembleOutput(res, Elapsed(res))>>)

Init ==
    /\ NewOrchestrator
    /\ NoApi
    /\ payload \in Kinds
    /\ ag = [a \in Agents |-> NewAgent(DefaultMaxRetries, <<>>)]

Next ==
    \/ Register
    \/ StartPipeline
    \/ IngestionReturns
    \/ ExtractionReturns
    \/ \E a \in GroupSet : TaskStart(a)
    \/ GatherReturns
    \/ LiteratureReturns
    \/ GapReturns
    \/ \E a \in Agents : RunCompletes(a)
    \/ \E a \in Agents : BackoffEnds(a)

Spec == Init /\ [][Next]_vars

(***************************************************************************)
(* CancelSpec: the run, without observers, in which the awaited work of a  *)
(* stage-3 agent may also end in asyncio.CancelledError, so that the       *)
(* agent's execute raises instead of returning                             *)
(***************************************************************************)
CancelInit ==
    /\ NewOrchestrator
    /\ NoApi
    /\ payload = "model"
    /\ ag = [a \in Agents |-> NewAgent(DefaultMaxRetries, <<>>)]

RunCancelled(a) ==
    /\ ag[a].pc = "run"
    /\ LoopFree(a)
    /\ ag' = [ag EXCEPT ![a] = OnCancelled(ag[a])]
    /\ UNCHANGED <<orch_vars, payload, task, stream>>

CancelNext ==
    \/ StartPipeline
    \/ IngestionReturns
    \/ ExtractionReturns
    \/ \E a \in GroupSet : TaskStart(a)
    \/ GatherReturns
    \/ LiteratureReturns
    \/ GapReturns
    \/ \E a \in Agents : RunCompletes(a)
    \/ \E a \in Agents : BackoffEnds(a)
    \/ \E a \in GroupSet : RunCancelled(a)

CancelSpec == CancelInit /\ [][CancelNext]_vars

(***************************************************************************)
(* StreamSpec: the background task run_analysis_pipeline of one paper and  *)
(* one stream_progress request for that paper (api/routes/papers.py), the  *)
(* request opened at any moment, its generator interleaved with the run at *)
(* its suspension points (each yield, the sleep between two polls).        *)
(* The database accesses of the task are left out.  Each agent behaves the *)
(* same on every invocation; the polling budget max_wait / 0.5 is MaxPolls.*)
(***************************************************************************)
Steady(o) == [i \in 1..(DefaultMaxRetries + 1) |-> o]

\* all agents succeed, or one of them does o on every invocation
Scene(bad, o) == [a \in Agents |-> IF a = bad THEN Steady(o) ELSE Steady("model")]

Scenes == {Scene("-", "model"), Scene("ingestion", "empty")}
          \cup {Scene(a, "raise_run") : a \in Agents}

StreamInit ==
    /\ NewOrchestrator
    /\ payload = "model"
    /\ task = "pending"
    /\ stream = Closed
    /\ \E sc \in Scenes : ag = [a \in Agents |-> NewAgent(DefaultMaxRetries, sc[a])]

\* pipeline_events[paper_id].append({"stage": "error", "status": "failed", ...})
ErrorEvent == Event("error", "failed", Text("str(e)"))

\* pipeline_events.get(paper_id, []): the list on_progress appends every event
\* to, with the error event the task appends when the run raised
PipelineEvents == IF task = "faulted" THEN Append(events, ErrorEvent) ELSE events

TaskOver == task \in {"finished", "faulted"}

\* lines 25-43: the orchestrator is built, the event list created and
\* on_progress registered
TaskBegins ==
    /\ task = "pending"
    /\ task' = "running"
    /\ progress_callbacks' = <<1>>
    /\ cb_calls' = Put(<<>>, 1, 0)
    /\ UNCHANGED <<ag, opc, results, pipeline_status, events, cb_faulted, output,
                   payload, stream>>

\* line 46: await orchestrator.run_pipeline(input_data); on_progress only
\* stores the event, it does not raise
PipelineStep ==
    /\ task = "running"
    /\ \/ StartPipeline
       \/ IngestionReturns
       \/ ExtractionReturns
       \/ \E a \in GroupSet : TaskStart(a)
       \/ GatherReturns
       \/ LiteratureReturns
       \/ GapReturns
       \/ \E a \in Agents : RunCompletes(a)
       \/ \E a \in Agents : BackoffEnds(a)
    /\ cb_faulted' = {}

\* lines 47-69: the run returned, the result is stored
TaskEnds ==
    /\ task = "running" /\ opc = "returned"
    /\ task' = "finished"
    /\ UNCHANGED <<ag, orch_vars, payload, stream>>

\* lines 71-78: the run raised, the error event is appended
TaskFaults ==
    /\ task = "running" /\ opc = "raised"
    /\ task' = "faulted"
    /\ UNCHANGED <<ag, orch_vars, payload, stream>>

Item(i) == [kind |-> "event", index |-> i]

Complete(status) == [kind |-> "complete", index |-> 0, status |-> status]

\* statuses and all(s.get("status") in ("done", "failed") ...) and
\* len(statuses) >= 7, statuses being the event's 'pipeline' entry
AllTerminal(ps) ==
    /\ ps # <<>>
    /\ \A k \in DOMAIN ps : ps[k].status \in {"done", "failed"}
    /\ Cardinality(DOMAIN ps) >= CompleteStages

\* while sent_count < len(events): the next event is sent, or the poll is over
AfterEvent(s) ==
    [s EXCEPT !.pc = IF s.sent_count < Len(PipelineEvents) THEN "send" ELSE "sleep",
              !.polled_after_end = @ \/ TaskOver]

\* a client requests /{paper_id}/stream: sent_count = 0, waited = 0
StreamOpens ==
    /\ stream.pc = "closed"
    /\ stream' = [stream EXCEPT !.pc = "poll"]
    /\ UNCHANGED <<ag, orch_vars, payload, task>>

\* while waited < max_wait: events = pipeline_events.get(paper_id, [])
StreamPolls ==
    /\ stream.pc = "poll"
    /\ stream' = IF stream.waited >= MaxPolls
                  THEN [stream EXCEPT !.pc = "ended"]
                  ELSE AfterEvent(stream)
    /\ UNCHANGED <<ag, orch_vars, payload, task>>

\* event = events[sent_count]; yield it; sent_count += 1
StreamYields ==
    /\ stream.pc = "send"
    /\ stream' = [stream EXCEPT !.pc = "check",
                                 !.out = Append(@, Item(stream.sent_count + 1)),
                                 !.sent_count = @ + 1]
    /\ UNCHANGED <<ag, orch_vars, payload, task>>

\* lines 218-229, after the yield: the 'complete' marker and the end of the
\* generator, or the next turn of the inner loop
StreamChecks ==
    /\ stream.pc = "check"
    /\ LET event == PipelineEvents[stream.sent_count] IN
       stream' =
         IF event.stage = "error"
         THEN [stream EXCEPT !.pc = "ended", !.out = Append(@, Complete("failed"))]
         ELSE IF AllTerminal(PipelineOf(event))
         THEN [stream EXCEPT !.pc = "ended", !.out = Append(@, Complete("done"))]
         ELSE AfterEvent(stream)
    /\ UNCHANGED <<ag, orch_vars, payload, task>>

\* await asyncio.sleep(0.5); waited += 0.5
StreamWakes ==
    /\ stream.pc = "sleep"
    /\ stream' = [stream EXCEPT !.pc = "poll", !.waited = @ + 1]
    /\ UNCHANGED <<ag, orch_vars, payload, task>>

StreamNext ==
    \/ TaskBegins
    \/ PipelineStep
    \/ TaskEnds
    \/ TaskFaults
    \/ StreamOpens
    \/ StreamPolls
    \/ StreamYields
    \/ StreamChecks
    \/ StreamWakes

StreamSpec == StreamInit /\ [][StreamNext]_vars

\* the event loop keeps running whatever is ready: every awaited work function
\* returns or raises, every back-off elapses, every callback returns
FairSpec == Spec /\ WF_vars(Next)

(***************************************************************************)
(* AssembleSpec: _assemble_output called on any result table -- empty,     *)
(* partial, all failed, all succeeded -- once and again                    *)
(***************************************************************************)
Slots == {"missing", "failed", "success"}

\* the results execute and run_pipeline can put in a slot: a failed one, or a
\* success holding what execute makes of the value the work function returned
ResultOf(a, slot, kind) ==
    IF slot = "failed" THEN AgentResult("failed", NoneV, Err(a, 1, "run"), 0, 1)
    ELSE AgentResult("success", OutputDict(Value(a, kind)), NoError, 0, 0)

ResultTable(slots, kind) ==
    [a \in {k \in Agents : slots[k] # "missing"} |-> ResultOf(a, slots[a], kind)]

AssembleInit ==
    /\ opc = "new"
    /\ NoApi
    /\ payload \in {k \in Kinds : ValidOutput(OutputDict(Value("-", k)))}
    /\ \E slots \in [Agents -> Slots] : results = ResultTable(slots, payload)
    /\ pipeline_status = Put(<<>>, "reading_paper",
                             [status |-> "running", detail |-> Text("Parsing paper...")])
    /\ progress_callbacks = <<1>>
    /\ cb_calls = Put(<<>>, 1, 1)
    /\ events = <<Event("reading_paper", "running", Text("Parsing paper..."))>>
    /\ cb_faulted = {}
    /\ output = <<>>
    /\ ag = [a \in Agents |-> NewAgent(DefaultMaxRetries, <<>>)]

AssembleCall_consuming ==
    /\ Len(output) < MaxCalls
    /\ \E total_time \in 0..MaxTime :
         output' = Append(output, AssembleOutput(results, total_time))
    /\ results' = <<>>
    /\ UNCHANGED <<ag, opc, pipeline_status, progress_callbacks, events,
                   cb_calls, cb_faulted, payload, task, stream>>

\* self._assemble_output(total_time): reads self.results, builds a new dict,
\* assigns to no attribute; output collects what the successive calls return
AssembleCall ==
    /\ Len(output) < MaxCalls
    /\ \E total_time \in 0..MaxTime :
         output' = Append(output, AssembleOutput(results, total_time))
    /\ UNCHANGED <<ag, opc, results, pipeline_status, progress_callbacks, events,
                   cb_calls, cb_faulted, payload, task, stream>>

AssembleNext == AssembleCall

AssembleSpec == AssembleInit /\ [][AssembleNext]_vars

(***************************************************************************)
(* Claims about BaseAgent.execute, checked under UnitSpec                  *)
(***************************************************************************)
U == ag[Unit]

\* the scripted invocation raises, from run or from the validation hook
Raises(o) == o \in {"raise_run", "raise_validate"}

\* the scripted invocation returns a value execute makes a result of
Succeeds(o) == o \in {"none", "empty", "dict", "model"}

\* the work function fails on exactly its first k invocations and succeeds on
\* every later one
FailsFirst(s, k) ==
    \A i \in 1..Len(s.script) :
        IF i <= k THEN Raises(s.script[i]) ELSE Succeeds(s.script[i])

AlwaysFails(s) == \A i \in 1..Len(s.script) : Raises(s.script[i])

RECURSIVE SumPow(_)
\* 2^1 + ... + 2^k
SumPow(k) == IF k <= 0 THEN 0 ELSE 2 ^ k + SumPow(k - 1)

\* C1: whatever run and validate do on each invocation (return any value, or
\* raise), an execute call never lets an exception escape, never returns more
\* than once, can always take its next step until it has returned, and what it
\* returns is one AgentResult whose status is success or failed.
C1_ExactlyOneResult ==
    /\ U.pc # "raised"
    /\ U.returns <= 1
    /\ U.pc \in {"run", "sleep"} => ENABLED UnitNext
    /\ U.pc = "done" => U.returns = 1 /\ U.result.status \in {"success", "failed"}
    /\ U.pc # "done" => U.returns = 0 /\ U.result = NoResult

C1_Witness ==
    /\ U.pc = "done" /\ U.max_retries = 2
    /\ U.result.status = "failed"
    /\ U.result.error.what = "ValidationError"
    /\ U.script[1] = "raise_run" /\ U.script[2] = "raise_validate"

\* C3 as stated: a work function that fails on exactly its first m+1
\* invocations and would succeed afterwards ends in success with retry_count m.
C3_Original ==
    (U.pc = "done" /\ FailsFirst(U, U.max_retries + 1))
        => (U.result.status = "success" /\ U.result.retry_count = U.max_retries)

\* C3 amended: a work function that fails on exactly its first m invocations
\* and succeeds on the next one ends in success with retry_count m.
C3_Amended ==
    (U.pc = "done" /\ FailsFirst(U, U.max_retries))
        => (U.result.status = "success" /\ U.result.retry_count = U.max_retries)

C3_Witness ==
    /\ U.pc = "done" /\ U.max_retries = 2 /\ FailsFirst(U, 2)
    /\ U.calls = 3 /\ U.result.status = "success"

\* C4: a work function that fails on every invocation is invoked exactly m+1
\* times (never more, at any moment), and the call returns failed with
\* retry_count m+1 and the error of the (m+1)-th invocation.
C4_AlwaysFailing ==
    /\ U.calls <= U.max_retries + 1
    /\ (U.pc = "done" /\ AlwaysFails(U)) =>
         /\ U.calls = U.max_retries + 1
         /\ U.result.status = "failed"
         /\ U.result.retry_count = U.max_retries + 1
         /\ U.result.error =
              Err(Unit, U.max_retries + 1,
                  IF U.script[U.max_retries + 1] = "raise_run"
                  THEN "run" ELSE "validate")

C4_Witness ==
    /\ U.pc = "done" /\ U.max_retries = 2 /\ AlwaysFails(U)
    /\ U.script[1] = "raise_validate" /\ U.script[3] = "raise_run"

\* C5: the back-off after the k-th failure (1 <= k <= m) is 2^k; every
\* invocation after the first starts only when the back-offs of all earlier
\* failures have been slept; the (m+1)-th failure is followed by no back-off,
\* so a failed call has slept 2^1 + ... + 2^m in all (0 when m = 0).
C5_Backoff ==
    /\ U.pc = "sleep" =>
         /\ U.retry_count \in 1..U.max_retries
         /\ U.delay = 2 ^ U.retry_count
         /\ U.slept = SumPow(U.retry_count - 1)
    /\ U.pc = "run" => U.calls = U.retry_count + 1 /\ U.slept = SumPow(U.retry_count)
    /\ U.pc # "sleep" => U.delay = 0
    /\ (U.pc = "done" /\ U.result.status = "failed") =>
         /\ U.slept = SumPow(U.max_retries)
         /\ U.result.execution_time_seconds = SumPow(U.max_retries)

C5_Witness ==
    /\ U.pc = "done" /\ AlwaysFails(U) /\ U.max_retries = 2 /\ U.slept = 6

\* C25: a success result carries as retry_count the number of attempts that
\* failed before the successful one (the work function raised, the validation
\* hook raised, or the value was refused), which is at most m; the work
\* function is never invoked more than m+1 times, and each attempt, the first
\* and every retry, is one new invocation of the work function.
C25_RetryCount ==
    /\ U.calls <= U.max_retries + 1
    /\ U.pc = "run" => U.calls = U.retry_count + 1
    /\ (U.pc = "done" /\ U.result.status = "success") =>
          /\ U.result.retry_count = U.calls - 1
          /\ U.result.retry_count <= U.max_retries
          /\ \A i \in 1..(U.calls - 1) : ~Succeeds(U.script[i])
          /\ Succeeds(U.script[U.calls])

C25_Witness ==
    /\ U.pc = "done" /\ U.max_retries = 2
    /\ U.result.status = "success" /\ U.result.retry_count = 2
    /\ U.script[1] = "raise_validate" /\ U.script[2] = "raise_run"
    /\ U.calls = 3

AllowedTransitions ==
    {<<"idle", "running">>, <<"running", "success">>, <<"running", "retrying">>,
     <<"retrying", "running">>, <<"retrying", "failed">>}

\* C6: during one execute call the status field moves only idle->running,
\* running->success, running->retrying, retrying->running, retrying->failed,
\* and it is running whenever the work function is being invoked.
C6_StatusMachine ==
    /\ \A i \in 1..(Len(U.trace) - 1) :
          <<U.trace[i], U.trace[i + 1]>> \in AllowedTransitions
    /\ U.pc = "run" => U.status = "running"

\* the output/error invariant of one AgentResult
OutputIffSuccess(r) ==
    /\ (r.output # NoneV) <=> (r.status = "success")
    /\ (r.error # NoError) <=> (r.status = "failed")

\* C7: every AgentResult execute returns, and every one in the result table,
\* has an output exactly when it is a success and an error exactly when it
\* is failed.
C7_OutputIffSuccess ==
    /\ \A a \in Agents : ag[a].pc = "done" => OutputIffSuccess(ag[a].result)
    /\ \A k \in DOMAIN results : OutputIffSuccess(results[k])

(***************************************************************************)
(* Claims about Orchestrator.run_pipeline, checked under Spec              *)
(***************************************************************************)
Returned(a) == ag[a].pc = "done"

NeverInvoked(a) == ag[a].pc = "idle" /\ ag[a].calls = 0 /\ ag[a].status = "idle"

Sections(out) ==
    [paper |-> out.paper, knowledge_card |-> out.knowledge_card,
     explanations |-> out.explanations, related_papers |-> out.related_papers,
     literature_review |-> out.literature_review, gap_analysis |-> out.gap_analysis,
     code_prototype |-> out.code_prototype]

AllEmpty == [s \in DOMAIN Sections(AssembleOutput(<<>>, 0)) |-> EmptyDict]

\* C2: whatever the agents return and whatever the observers do, no exception
\* leaves run_pipeline, and a finished run has handed back its output document.
C2_NeverRaises ==
    /\ opc # "raised"
    /\ opc = "returned" <=> output # <<>>

\* C8: once ingestion has returned failed, no other agent is ever invoked, the
\* run goes straight to its return, and the returned output has {} in all seven
\* sections and exactly one agent_statuses entry: ingestion, failed.
C8_Stage1Failure ==
    (Returned("ingestion") /\ ag["ingestion"].result.status = "failed") =>
        /\ \A a \in Agents \ {"ingestion"} : NeverInvoked(a)
        /\ opc \in {"ingesting", "returned"}
        /\ opc = "returned" =>
             /\ Sections(output[1]) = AllEmpty
             /\ DOMAIN output[1].metadata.agent_statuses = {"ingestion"}
             /\ output[1].metadata.agent_statuses["ingestion"].status = "failed"

C8_Witness ==
    /\ opc = "returned"
    /\ ag["ingestion"].result.status = "failed"
    /\ ag["ingestion"].calls = 3
    /\ Len(events) = 2

\* C9: once ingestion has succeeded and extraction has returned failed, none of
\* the five later agents is ever invoked, the run returns right after the
\* stage-2 failed event, the result table holds exactly the ingestion and the
\* extraction result, and the output carries the ingestion output in paper and
\* {} in the six other sections.
C9_Stage2Failure ==
    (/\ Returned("ingestion") /\ ag["ingestion"].result.status = "success"
     /\ Returned("extraction") /\ ag["extraction"].result.status = "failed") =>
        /\ \A a \in Agents \ {"ingestion", "extraction"} : NeverInvoked(a)
        /\ opc \in {"extracting", "returned"}
        /\ opc = "returned" =>
             /\ events[Len(events)].stage = "extracting_methodology"
             /\ events[Len(events)].status = "failed"
             /\ DOMAIN results = {"ingestion", "extraction"}
             /\ results["ingestion"] = ag["ingestion"].result
             /\ results["extraction"] = ag["extraction"].result
             /\ Sections(output[1]) =
                  [AllEmpty EXCEPT !.paper = ag["ingestion"].result.output]

\* C10: a stage-3 agent is started only after extraction has returned success
\* and its result is in the table; and as long as one of the three has not
\* reached its terminal state, neither literature_review nor gap_analysis has
\* been started and the table holds no stage-3 or later result.
C10_GroupBarrier ==
    /\ \A a \in GroupSet : ~NeverInvoked(a) =>
          /\ "extraction" \in DOMAIN results
          /\ results["extraction"].status = "success"
          /\ Returned("extraction")
    /\ (\E a \in GroupSet : ~Returned(a)) =>
          /\ NeverInvoked("literature_review")
          /\ NeverInvoked("gap_analysis")
          /\ DOMAIN results \subseteq {"ingestion", "extraction"}
          /\ opc \notin {"reviewing", "analysing"}
          /\ opc = "returned" => \A a \in GroupSet : NeverInvoked(a)

\* the join has let stage 4 start after one member failed, one succeeded after
\* a back-off and one succeeded at once
C10_Witness ==
    /\ opc = "reviewing"
    /\ ag["literature_review"].pc = "run"
    /\ results["simplification"].status = "failed"
    /\ results["related_research"].retry_count = 1
    /\ results["code_generation"].retry_count = 0
    /\ results["code_generation"].status = "success"

\* the section of a returned output that shows the result r: its output for a
\* success, the empty placeholder for a failure
Shown(r) == IF r.status = "success" THEN r.output ELSE EmptyDict

\* C11: whatever the three concurrent agents do and however they interleave,
\* every member runs to its own return (none is cancelled), the result table
\* holds for each member exactly the result its own execute returned, and the
\* returned output shows that member's status in agent_statuses and that
\* member's output in its section.
C11_Independence ==
    \A a \in GroupSet :
        /\ a \in DOMAIN results =>
              /\ Returned(a)
              /\ results[a].status = ag[a].result.status
              /\ results[a].output = ag[a].result.output
        /\ (opc = "returned" /\ ~NeverInvoked(a)) =>
              /\ a \in DOMAIN output[1].metadata.agent_statuses
              /\ output[1].metadata.agent_statuses[a].status = ag[a].result.status
              /\ output[1][SectionOf[a]] = Shown(ag[a].result)

\* the join has stored a related_research result that is not a success
RelatedFailed ==
    /\ Returned("extraction") /\ ag["extraction"].result.status = "success"
    /\ "related_research" \in DOMAIN results
    /\ results["related_research"].status # "success"

\* C12: once extraction has succeeded and the related_research result stored
\* at the join is not a success, literature_review's execute is never invoked,
\* its slot holds a failed result whose error is 'Related research
\* unavailable', gap_analysis has been started (once) and can always take its
\* next step, and when the run returns the gap_analysis slot holds the result
\* its execute returned.
C12_DegradedContinuation ==
    RelatedFailed =>
        /\ NeverInvoked("literature_review")
        /\ "literature_review" \in DOMAIN results
        /\ results["literature_review"].status = "failed"
        /\ results["literature_review"].output = NoneV
        /\ results["literature_review"].error.what = "Related research unavailable"
        /\ opc \in {"analysing", "returned"}
        /\ ag["gap_analysis"].executes = 1
        /\ opc = "analysing" =>
              ENABLED (RunCompletes("gap_analysis") \/ BackoffEnds("gap_analysis")
                       \/ GapReturns)
        /\ opc = "returned" =>
              /\ Returned("gap_analysis")
              /\ results["gap_analysis"] = ag["gap_analysis"].result

\* related_research failed on its three attempts while a sibling succeeded,
\* the review was skipped and the gap analysis succeeded on its second attempt
C12_Witness ==
    /\ RelatedFailed /\ opc = "returned"
    /\ ag["related_research"].calls = 3
    /\ results["simplification"].status = "success"
    /\ results["literature_review"] = SkippedReview
    /\ results["gap_analysis"].status = "success"
    /\ results["gap_analysis"].retry_count = 1

ExtractionSucceeded ==
    Returned("extraction") /\ ag["extraction"].result.status = "success"

\* what an agent hands to a dependent stage: its output if its execute was
\* invoked and returned success, the empty placeholder otherwise
Supplied(a) ==
    IF Returned(a) /\ ag[a].result.status = "success"
    THEN ag[a].result.output ELSE EmptyDict

\* C13: gap_analysis is never executed twice; it is executed only after
\* extraction succeeded, with the extraction output as 'knowledge', the
\* literature_review output (or {} if that stage did not succeed) as 'review'
\* and the related_research output (or {} if that stage did not succeed) as
\* 'related'; after a successful extraction no exception ends the run, and a
\* run that returns after a successful extraction has executed gap_analysis
\* exactly once.
C13_GapAnalysisAlways ==
    /\ ag["gap_analysis"].executes <= 1
    /\ ag["gap_analysis"].executes = 1 =>
          /\ ExtractionSucceeded
          /\ ag["gap_analysis"].input =
                [knowledge |-> ag["extraction"].result.output,
                 review |-> Supplied("literature_review"),
                 related |-> Supplied("related_research")]
    /\ ExtractionSucceeded =>
          /\ opc # "raised"
          /\ opc = "returned" =>
                ag["gap_analysis"].executes = 1 /\ Returned("gap_analysis")

\* the gap analysis runs with a placeholder review after the literature
\* review failed on its three attempts, and with the related papers found
C13_Witness ==
    /\ ag["gap_analysis"].pc = "run"
    /\ ag["literature_review"].calls = 3
    /\ ag["literature_review"].result.status = "failed"
    /\ ag["gap_analysis"].input.review = EmptyDict
    /\ ag["gap_analysis"].input.related = [kind |-> "dump", by |-> "related_research"]
    /\ ag["gap_analysis"].input.knowledge = [kind |-> "dump", by |-> "extraction"]
    /\ results["code_generation"].status = "failed"

StageSet == {STAGES[i] : i \in 1..Len(STAGES)}

\* the statuses emitted for one stage so far, in emission order
StatusesOf(stage) ==
    LET s == SelectSeq(events, LAMBDA e : e.stage = stage)
    IN  [i \in 1..Len(s) |-> s[i].status]

Terminal == {"done", "failed"}

\* C14: at every moment the statuses emitted for a stage are a prefix of
\* (running, terminal) with terminal done or failed: nothing before 'running',
\* no second 'running', no second terminal event; and when run_pipeline has
\* returned, no stage is left with 'running' alone.
C14_StageOrder ==
    \A st \in StageSet :
        LET s == StatusesOf(st) IN
        /\ Len(s) <= 2
        /\ Len(s) >= 1 => s[1] = "running"
        /\ Len(s) = 2 => s[2] \in Terminal
        /\ opc = "returned" => Len(s) # 1

\* a short-circuited run: the one stage that started has its failed event
C14_Witness ==
    /\ opc = "returned"
    /\ StatusesOf("reading_paper") = <<"running", "done">>
    /\ StatusesOf("extracting_methodology") = <<"running", "failed">>
    /\ Len(events) = 4

\* C15: however a run ends (returns after stage 5, returns early, or raises),
\* each of the seven stages of STAGES has emitted exactly (running, terminal),
\* terminal being done or failed.
C15_EveryStageReported ==
    opc \in {"returned", "raised"} =>
        \A st \in StageSet :
            StatusesOf(st) \in {<<"running", "done">>, <<"running", "failed">>}

\* the result table as the agents alone determine it: for every slot filled
\* so far the result that agent's execute returned, and the dependency
\* failure for a literature review that was skipped
OwnResults ==
    [k \in DOMAIN results |->
        IF k = "literature_review" /\ NeverInvoked(k) THEN SkippedReview
        ELSE ag[k].result]

TableAt(i) == ApplyEvents(<<>>, SubSeq(events, 1, i))

\* C17: for an observer that keeps the events it receives, the snapshot read
\* from a kept event is the status table of that event's own transition,
\* whatever happened since, so the snapshots of two different events differ.
C17_SnapshotStable ==
    progress_callbacks # <<>> =>
        /\ \A i \in 1..Len(events) : PipelineOf(events[i]) = TableAt(i)
        /\ \A i, j \in 1..Len(events) :
              i # j => PipelineOf(events[i]) # PipelineOf(events[j])

\* C19: in the output a run returns, every agent whose execute was invoked
\* during the run has returned and has an agent_statuses entry with the
\* terminal status (success or failed) and the error of the AgentResult that
\* invocation returned.
C19_MetadataAttempted ==
    opc = "returned" =>
        \A a \in Agents : ag[a].executes > 0 =>
            /\ Returned(a)
            /\ a \in DOMAIN output[1].metadata.agent_statuses
            /\ output[1].metadata.agent_statuses[a].status = ag[a].result.status
            /\ output[1].metadata.agent_statuses[a].status \in {"success", "failed"}
            /\ output[1].metadata.agent_statuses[a].error = ag[a].result.error

\* a full run in which code_generation failed on its third attempt and
\* gap_analysis succeeded after one retry
C19_Witness ==
    /\ opc = "returned"
    /\ \A a \in Agents : ag[a].executes = 1
    /\ output[1].metadata.agent_statuses["code_generation"].status = "failed"
    /\ output[1].metadata.agent_statuses["code_generation"].error =
          Err("code_generation", 3, "run")
    /\ output[1].metadata.agent_statuses["gap_analysis"].status = "success"
    /\ ag["gap_analysis"].retry_count = 1

\* every agent's execute was invoked and returned success with an output that
\* is not empty
AllSucceeded ==
    \A a \in Agents :
        /\ Returned(a) /\ ag[a].result.status = "success"
        /\ Truthy(ag[a].result.output)

\* C21: the output returned by a run in which all seven agents succeeded with
\* a non-empty output has exactly seven agent_statuses entries, all success,
\* and each of its seven sections is the output of its own agent, none the
\* empty placeholder.
C21_AllSucceed ==
    (opc = "returned" /\ AllSucceeded) =>
        /\ DOMAIN output[1].metadata.agent_statuses = Agents
        /\ \A a \in Agents :
              /\ output[1].metadata.agent_statuses[a].status = "success"
              /\ output[1][SectionOf[a]] = ag[a].result.output
              /\ output[1][SectionOf[a]] # EmptyDict
              /\ output[1][SectionOf[a]].by = a

\* all seven succeeded, two of the concurrent agents after a retry
C21_Witness ==
    /\ opc = "returned" /\ AllSucceeded
    /\ ag["simplification"].result.retry_count = 1
    /\ ag["code_generation"].result.retry_count = 2
    /\ output[1].explanations = [kind |-> "dump", by |-> "simplification"]

\* agent a is inside its execute call: awaiting its work or its back-off
Executing(a) == ag[a].pc \in {"run", "sleep"}

\* C22: when run_pipeline has returned (its last act being the call of
\* _assemble_output), every agent whose execute was started has returned and
\* its result is in the result table, no agent is running, retrying or in
\* back-off, and from then on no agent does anything.
C22_QuiescentAtReturn ==
    /\ [](opc = "returned" =>
            \A a \in Agents :
                /\ ~Executing(a)
                /\ ag[a].status \notin {"running", "retrying"}
                /\ ag[a].executes > 0 =>
                      /\ Returned(a)
                      /\ a \in DOMAIN results
                      /\ results[a] = ag[a].result)
    /\ [][opc = "returned" => ag' = ag]_vars

\* the run returned after one concurrent agent had slept through both its
\* back-offs and failed while a sibling succeeded at once
C22_Witness ==
    /\ opc = "returned"
    /\ ag["code_generation"].slept = 6
    /\ results["code_generation"].status = "failed"
    /\ results["simplification"].retry_count = 0
    /\ results["simplification"].status = "success"
    /\ Returned("gap_analysis")

\* C23: if every work-function invocation and every callback eventually
\* returns or raises and every back-off elapses, run_pipeline eventually
\* returns its assembled output.
C23_EventuallyReturns == <>(opc = "returned" /\ output # <<>>)

Active == {a \in Agents : Executing(a)}

\* C24: at most one agent is inside its execute call at any moment, except
\* while the stage-3 group is awaited, when only its three members may be;
\* extraction has been started only if ingestion returned success,
\* gap_analysis only if the literature_review slot holds a success or a
\* failed result, and no agent's execute is invoked twice in a run.
C24_StageConcurrency ==
    /\ \/ Cardinality(Active) <= 1
       \/ opc = "gathering" /\ Active \subseteq GroupSet
    /\ \A a \in Agents : ag[a].executes <= 1
    /\ ag["extraction"].executes > 0 =>
          /\ Returned("ingestion")
          /\ ag["ingestion"].result.status = "success"
          /\ "ingestion" \in DOMAIN results
    /\ ag["gap_analysis"].executes > 0 =>
          /\ "literature_review" \in DOMAIN results
          /\ results["literature_review"].status \in {"success", "failed"}
          /\ ~Executing("literature_review")

\* the three concurrent agents are executing together: one awaits its work
\* for the first time, one is in back-off, one awaits its third invocation
C24_Witness ==
    /\ opc = "gathering"
    /\ Active = GroupSet
    /\ ag["simplification"].pc = "run" /\ ag["simplification"].calls = 1
    /\ ag["related_research"].pc = "sleep"
    /\ ag["code_generation"].pc = "run" /\ ag["code_generation"].calls = 3

\* the terminal event of agent a's stage tells the status of a's result
ReportsOutcome(a) ==
    LET s == StatusesOf(StageOf[a]) IN
    (Len(s) = 2 /\ a \in DOMAIN results) =>
        /\ s[2] = "failed" <=> results[a].status = "failed"
        /\ s[2] = "done" <=> results[a].status = "success"

\* C26: for each of the seven stages, the terminal event emitted for the
\* stage is 'failed' exactly when the result recorded for its agent is failed
\* (a skipped literature review included) and 'done' exactly when it is a
\* success.
C26_TerminalEventOutcome == \A a \in Agents : ReportsOutcome(a)

\* agent b, not yet at its terminal state, can take its next step now
CanStep(b) ==
    /\ ag[b].pc = "idle" => ENABLED TaskStart(b)
    /\ ag[b].pc = "run" => ENABLED RunCompletes(b)
    /\ ag[b].pc = "sleep" => ENABLED BackoffEnds(b)

C27_CollectedAtJoin ==
    \A a \in GroupSet :
        (ag[a].pc = "raised" /\ opc # "gathering") =>
            /\ opc \in {"reviewing", "analysing", "returned"}
            /\ a \in DOMAIN results
            /\ results[a].status = "failed"
            /\ results[a].error = Err(a, ag[a].calls, "raised")
            /\ \A b \in GroupSet \ {a} :
                  /\ ag[b].pc \in {"done", "raised"}
                  /\ Returned(b) => results[b] = ag[b].result

(***************************************************************************)
(* Claims about Orchestrator._assemble_output, checked under AssembleSpec  *)
(***************************************************************************)
\* C18: whatever the result table holds, every section of an assembled
\* output is the output of the result in its own agent's slot if that slot is
\* filled with a success, and the empty placeholder {} otherwise.
C18_Sections ==
    \A i \in 1..Len(output) : \A a \in Agents :
        output[i][SectionOf[a]] =
            IF a \in DOMAIN results /\ results[a].status = "success"
            THEN results[a].output ELSE EmptyDict

Announced ==
    Len(stream.out) > 0 /\ stream.out[Len(stream.out)].kind = "complete"

\* C29: a generator that has read the event list after the background task
\* was over (the run completed, short-circuited or faulted) does not end, by
\* return or by running out its polling budget, without having sent the
\* 'complete' marker.
C29_CompletionAnnounced ==
    (stream.pc = "ended" /\ stream.polled_after_end) => Announced

\* C30: what the client has received is the recorded events in emission
\* order, each once, and a 'complete' marker comes only last, after every
\* event recorded for the paper.
C30_AllEventsInOrder ==
    \A i \in 1..Len(stream.out) :
        IF stream.out[i].kind = "event"
        THEN stream.out[i].index = i /\ i <= Len(PipelineEvents)
        ELSE i = Len(stream.out) /\ i - 1 = Len(PipelineEvents)

====
